---- MODULE Spec2Model ----
(***************************************************************************)
(* State-machine model of LandmarkDetectorGUI (src/landmark_detector.py):  *)
(* the camera/GUI update loop, the snapshot and recording handlers, the    *)
(* pose classifier and cleanup.                                            *)
(*                                                                         *)
(* Modelling conventions                                                   *)
(*  - an optional Python value (None / attribute not yet set) is a         *)
(*    sequence of length 0 or 1;                                           *)
(*  - landmark y-coordinates are integers in tenths (0.2 is Threshold);    *)
(*  - an image is [src, drawn]: the camera frame it was made from and      *)
(*    whether it went through _draw_landmarks;                             *)
(*  - a file name keeps its stem and extension; the timestamp between them  *)
(*    is not modelled;                                                     *)
(*  - `call` records what the most recent handler invocation did.          *)
(***************************************************************************)
EXTENDS Integers, Sequences, FiniteSets, TLC

\* ---------------------------------------------------------------- bounds
\* largest y-coordinate of the landmark grid, in tenths
YMax == 3
\* number of distinct camera frames the camera can deliver
NumFrames == 2

\* ------------------------------------------------------ program constants
\* the 0.2 of "shoulder - 0.2", in tenths
Threshold == 2

\* ------------------------------------------------------------ value sets
Frames == 1..NumFrames
Y == 0..YMax

\* results.pose_landmarks.landmark, restricted to the four entries read
Landmark == [right_shoulder : Y, right_wrist : Y, left_shoulder : Y, left_wrist : Y]

\* Python None returned by process_frame on error
NoneResults == [kind |-> "None", pose_landmarks |-> <<>>]
\* the attribute last_results before the first frame was processed
Unset == [kind |-> "unset", pose_landmarks |-> <<>>]
\* a holistic result object; pose_landmarks is <<>> (None) or <<landmark>>
Results(pl) == [kind |-> "results", pose_landmarks |-> pl]
ResultSet == {Results(<<>>)} \cup {Results(<<lm>>) : lm \in Landmark}
\* the results holistic.process delivers in the GUI loop: a person whose
\* shoulders are level at the bottom of the grid and whose wrists are anywhere
LoopLandmark == {lm \in Landmark : lm.right_shoulder = YMax /\ lm.left_shoulder = YMax}
LoopResultSet == {Results(<<>>)} \cup {Results(<<lm>>) : lm \in LoopLandmark}

\* the frame returned by cap.read()
Raw(f) == [src |-> f, drawn |-> FALSE]
\* the image after cvtColor round trip and _draw_landmarks
Annotated(f) == [src |-> f, drawn |-> TRUE]

\* f"capture_{timestamp}.jpg" / f"recording_{timestamp}.mp4"
FileName(stem, ext) == <<stem, ext>>

PoseLabels == {"Raising Right Hand", "Raising Left Hand", "Standing"}
AllLabels == PoseLabels \cup {"None"}

VARIABLES
    pc,               \* "constructed", "mainloop" or "destroyed" (GUI);
                      \* "classify" or "classified" (classifier alone)
    running,          \* self.running
    cap_opened,       \* self.cap.isOpened()
    holistic_closed,  \* self.holistic.close() was called
    recording,        \* self.recording
    video_writer,     \* self.video_writer: <<>> or <<[file, released]>>
    record_button,    \* text of self.record_button
    status_label,     \* text of self.status_label: <<text>> or <<text, arg>>
    action_label,     \* text of self.action_label: <<"Action: ", label>>
    last_frame,       \* self.last_frame: <<>> (not set) or <<image>>
    last_results,     \* self.last_results
    pending,          \* number of update_frame callbacks scheduled by root.after
    last_results_src, \* history: camera frame last_results was computed from
    open_writers,     \* history: VideoWriter objects created and not released
    returned,         \* history: labels detect_action has returned
    call              \* history: the most recent handler invocation

vars == <<pc, running, cap_opened, holistic_closed, recording, video_writer,
          record_button, status_label, action_label, last_frame, last_results,
          pending, last_results_src, open_writers, returned, call>>

\* a handler invocation that did nothing yet; handlers fill in their fields
NoCall ==
    [op |-> "init",
     recording_before |-> FALSE, \* self.recording on entry
     guard |-> FALSE,            \* update_frame: line 224 held
     read |-> FALSE,             \* update_frame: cap.read() was called
     ret |-> FALSE,              \* update_frame: the read succeeded
     frame |-> <<>>,             \* update_frame: the camera frame read
     raised |-> FALSE,           \* an exception was raised (and, in
                                 \* process_frame, caught)
     written |-> <<>>,           \* update_frame: image given to video_writer.write
     label |-> <<>>,             \* what detect_action returned
     scheduled |-> 0,            \* update_frame: root.after calls made
     saved |-> <<>>,             \* capture_image: [file, image] given to cv2.imwrite
     created |-> 0,              \* VideoWriter objects created
     released |-> 0]             \* VideoWriter objects released

Enter(op) == [NoCall EXCEPT !.op = op, !.recording_before = recording]

\* ------------------------------------------------------------ pure parts

\* truthiness of a results value: None is falsy, a result object is truthy
Truthy(results) == results.kind = "results"

\* results.pose_landmarks is not None
HasPose(results) == results.pose_landmarks # <<>>

\* process_frame returning the camera frame instead of the drawn image
process_frame_returns_frame(frame, raises, detected) ==
    IF raises
    THEN [image |-> frame, results |-> NoneResults, error |-> TRUE]
    ELSE [image |-> frame, results |-> detected, error |-> FALSE]

\* process_frame: the image and results it returns, and whether it took the
\* except branch. `raises` is whether cvtColor / holistic.process /
\* _draw_landmarks raised; `detected` is what holistic.process would return.
process_frame(frame, raises, detected) ==
    IF raises
    THEN [image |-> frame, results |-> NoneResults, error |-> TRUE]
    ELSE [image |-> Annotated(frame.src), results |-> detected, error |-> FALSE]

\* detect_action comparing with <= instead of <
detect_action_nonstrict(results) ==
    IF ~Truthy(results) \/ ~HasPose(results)
    THEN "None"
    ELSE LET landmarks == results.pose_landmarks[1]
         IN  IF landmarks.right_wrist <= landmarks.right_shoulder - Threshold
             THEN "Raising Right Hand"
             ELSE IF landmarks.left_wrist <= landmarks.left_shoulder - Threshold
                  THEN "Raising Left Hand"
                  ELSE "Standing"

\* detect_action with a fifth label for both wrists above their thresholds
detect_action_both(results) ==
    IF ~Truthy(results) \/ ~HasPose(results)
    THEN "None"
    ELSE LET landmarks == results.pose_landmarks[1]
             right == landmarks.right_wrist < landmarks.right_shoulder - Threshold
             left == landmarks.left_wrist < landmarks.left_shoulder - Threshold
         IN  IF right /\ left THEN "Raising Both Hands"
             ELSE IF right THEN "Raising Right Hand"
             ELSE IF left THEN "Raising Left Hand"
             ELSE "Standing"

\* detect_action
detect_action(results) ==
    IF ~Truthy(results) \/ ~HasPose(results)
    THEN "None"
    ELSE LET landmarks == results.pose_landmarks[1]
             right_shoulder == landmarks.right_shoulder
             right_wrist == landmarks.right_wrist
             left_shoulder == landmarks.left_shoulder
             left_wrist == landmarks.left_wrist
         IN  IF right_wrist < right_shoulder - Threshold
             THEN "Raising Right Hand"
             ELSE IF left_wrist < left_shoulder - Threshold
                  THEN "Raising Left Hand"
                  ELSE "Standing"

\* the condition of capture_image, line 187:
\*   hasattr(self, 'last_results') and self.last_results.pose_landmarks
\* "raise": the attribute access on None raises AttributeError
capture_condition(lr) ==
    IF lr.kind = "unset" THEN "false"
    ELSE IF lr.kind = "None" THEN "raise"
    ELSE IF HasPose(lr) THEN "true" ELSE "false"

\* the condition of update_frame, line 224
loop_condition == running /\ cap_opened

\* the condition of update_frame, line 232
write_condition == recording /\ video_writer # <<>>

\* the status text process_frame leaves: its except branch sets "Error: ..."
process_status(status, error) ==
    IF error THEN <<"Error: ", <<"str(e)">> >> ELSE status

\* lines 248-255 without the `if not self.recording` test
frame_status_always(status, results) ==
    IF Truthy(results) /\ HasPose(results)
    THEN <<"Pose detected">>
    ELSE <<"No pose detected">>

\* the status text after update_frame's lines 248-255
frame_status(status, results) ==
    IF ~recording
    THEN IF Truthy(results) /\ HasPose(results)
         THEN <<"Pose detected">>
         ELSE <<"No pose detected">>
    ELSE status

\* root.after indented into `if ret`
reschedule_on_success(ret) == IF ret THEN 1 ELSE 0

\* number of root.after calls update_frame makes at line 257, inside the
\* outer if and outside `if ret`
reschedule(ret) == 1

\* ------------------------------------------------------------------ Init
Init ==
    /\ pc = "constructed"
    /\ running = TRUE
    /\ cap_opened \in BOOLEAN
    /\ holistic_closed = FALSE
    /\ recording = FALSE
    /\ video_writer = <<>>
    /\ record_button = "Start Recording"
    /\ status_label = <<"Ready">>
    /\ action_label = <<"Action: ", "None">>
    /\ last_frame = <<>>
    /\ last_results = Unset
    /\ pending = 0
    /\ last_results_src = <<>>
    /\ open_writers = 0
    /\ returned = {}
    /\ call = NoCall

\* --------------------------------------------------------------- actions

\* the body of update_frame, entered with `left` callbacks still scheduled
update_frame(op, left) ==
    IF loop_condition
    THEN \E ret \in BOOLEAN :
           IF ret
           THEN \E f \in Frames, raises \in BOOLEAN, detected \in LoopResultSet :
                  LET p == process_frame(Raw(f), raises, detected)
                      action == detect_action(p.results)
                  IN  /\ last_frame' = <<p.image>>
                      /\ last_results' = p.results
                      /\ last_results_src' = <<f>>
                      /\ action_label' = <<"Action: ", action>>
                      /\ returned' = returned \cup {action}
                      /\ status_label' =
                            frame_status(process_status(status_label, p.error), p.results)
                      /\ pending' = left + reschedule(ret)
                      /\ call' = [Enter(op) EXCEPT
                                     !.guard = TRUE, !.read = TRUE, !.ret = TRUE,
                                     !.frame = <<f>>, !.raised = p.error,
                                     !.written = IF write_condition
                                                 THEN <<p.image>> ELSE <<>>,
                                     !.label = <<action>>,
                                     !.scheduled = reschedule(ret)]
           ELSE /\ pending' = left + reschedule(ret)
                /\ call' = [Enter(op) EXCEPT !.guard = TRUE, !.read = TRUE,
                                             !.scheduled = reschedule(ret)]
                /\ UNCHANGED <<last_frame, last_results, last_results_src,
                               action_label, returned, status_label>>
    ELSE /\ pending' = left
         /\ call' = Enter(op)
         /\ UNCHANGED <<last_frame, last_results, last_results_src,
                        action_label, returned, status_label>>

\* run: the first update_frame call, then the window-close protocol and mainloop
Run ==
    /\ pc = "constructed"
    /\ update_frame("run", pending)
    /\ pc' = "mainloop"
    /\ UNCHANGED <<running, cap_opened, holistic_closed, recording, video_writer,
                   record_button, open_writers>>

\* a callback scheduled by root.after(10, self.update_frame) fires.
\* Whether a callback still pending at root.destroy() is delivered is left
\* open: update_frame guards itself with self.running.
UpdateFrame ==
    /\ pc \in {"mainloop", "destroyed"}
    /\ pending > 0
    /\ update_frame("update_frame", pending - 1)
    /\ UNCHANGED <<pc, running, cap_opened, holistic_closed, recording,
                   video_writer, record_button, open_writers>>

\* the Capture Image button
CaptureImage ==
    /\ pc = "mainloop"
    /\ LET c == capture_condition(last_results)
           filename == FileName("capture", "jpg")
       IN  IF c = "raise"
           THEN /\ call' = [Enter("capture_image") EXCEPT !.raised = TRUE]
                /\ UNCHANGED status_label
           ELSE IF c = "true"
           THEN /\ call' = [Enter("capture_image") EXCEPT
                               !.saved = <<[file |-> filename, image |-> last_frame[1]]>>]
                /\ status_label' = <<"Saved: ", filename>>
           ELSE /\ call' = Enter("capture_image")
                /\ status_label' = <<"No pose detected!">>
    /\ UNCHANGED <<pc, running, cap_opened, holistic_closed, recording,
                   video_writer, record_button, action_label, last_frame,
                   last_results, pending, last_results_src, open_writers,
                   returned>>

\* toggle_recording whose stop branch releases the writer without clearing
\* self.video_writer
ToggleRecording_keeps_writer ==
    /\ pc = "mainloop"
    /\ IF ~recording
       THEN LET filename == FileName("recording", "mp4")
            IN  /\ video_writer' = <<[file |-> filename, released |-> FALSE]>>
                /\ open_writers' = open_writers + 1
                /\ recording' = TRUE
                /\ record_button' = "Stop Recording"
                /\ status_label' = <<"Recording: ", filename>>
                /\ call' = [Enter("toggle_recording") EXCEPT !.created = 1]
       ELSE /\ recording' = FALSE
            /\ IF video_writer # <<>>
               THEN /\ open_writers' = open_writers - 1
                    /\ video_writer' = <<[video_writer[1] EXCEPT !.released = TRUE]>>
                    /\ call' = [Enter("toggle_recording") EXCEPT !.released = 1]
               ELSE /\ UNCHANGED <<open_writers, video_writer>>
                    /\ call' = Enter("toggle_recording")
            /\ record_button' = "Start Recording"
            /\ status_label' = <<"Recording stopped">>
    /\ UNCHANGED <<pc, running, cap_opened, holistic_closed, action_label,
                   last_frame, last_results, pending, last_results_src,
                   returned>>

\* the Start/Stop Recording button
ToggleRecording ==
    /\ pc = "mainloop"
    /\ IF ~recording
       THEN LET filename == FileName("recording", "mp4")
            IN  /\ video_writer' = <<[file |-> filename, released |-> FALSE]>>
                /\ open_writers' = open_writers + 1
                /\ recording' = TRUE
                /\ record_button' = "Stop Recording"
                /\ status_label' = <<"Recording: ", filename>>
                /\ call' = [Enter("toggle_recording") EXCEPT !.created = 1]
       ELSE /\ recording' = FALSE
            /\ IF video_writer # <<>>
               THEN /\ open_writers' = open_writers - 1
                    /\ video_writer' = <<>>
                    /\ call' = [Enter("toggle_recording") EXCEPT !.released = 1]
               ELSE /\ UNCHANGED <<open_writers, video_writer>>
                    /\ call' = Enter("toggle_recording")
            /\ record_button' = "Start Recording"
            /\ status_label' = <<"Recording stopped">>
    /\ UNCHANGED <<pc, running, cap_opened, holistic_closed, action_label,
                   last_frame, last_results, pending, last_results_src,
                   returned>>

\* cleanup that releases the resources and leaves self.running set
Cleanup_keeps_running ==
    /\ pc = "mainloop"
    /\ IF recording /\ video_writer # <<>>
       THEN /\ video_writer' = <<[video_writer[1] EXCEPT !.released = TRUE]>>
            /\ open_writers' = open_writers - 1
            /\ call' = [Enter("cleanup") EXCEPT !.released = 1]
       ELSE /\ UNCHANGED <<video_writer, open_writers>>
            /\ call' = Enter("cleanup")
    /\ cap_opened' = FALSE
    /\ holistic_closed' = TRUE
    /\ pc' = "destroyed"
    /\ UNCHANGED <<running, recording, record_button, status_label, action_label,
                   last_frame, last_results, pending, last_results_src,
                   returned>>

\* the window is closed: cleanup
Cleanup ==
    /\ pc = "mainloop"
    /\ running' = FALSE
    /\ IF recording /\ video_writer # <<>>
       THEN /\ video_writer' = <<[video_writer[1] EXCEPT !.released = TRUE]>>
            /\ open_writers' = open_writers - 1
            /\ call' = [Enter("cleanup") EXCEPT !.released = 1]
       ELSE /\ UNCHANGED <<video_writer, open_writers>>
            /\ call' = Enter("cleanup")
    /\ cap_opened' = FALSE
    /\ holistic_closed' = TRUE
    /\ pc' = "destroyed"
    /\ UNCHANGED <<recording, record_button, status_label, action_label,
                   last_frame, last_results, pending, last_results_src,
                   returned>>

Next ==
    \/ Run
    \/ UpdateFrame
    \/ CaptureImage
    \/ ToggleRecording
    \/ Cleanup

Spec == Init /\ [][Next]_vars

\* ------------------------------------------------- the classifier alone
\* detect_action applied to every result of the landmark grid, and to None
InitClassifier ==
    /\ pc = "classify"
    /\ running = TRUE
    /\ cap_opened = TRUE
    /\ holistic_closed = FALSE
    /\ recording = FALSE
    /\ video_writer = <<>>
    /\ record_button = "Start Recording"
    /\ status_label = <<"Ready">>
    /\ action_label = <<"Action: ", "None">>
    /\ last_frame = <<>>
    /\ last_results \in ResultSet \cup {NoneResults}
    /\ pending = 0
    /\ last_results_src = <<>>
    /\ open_writers = 0
    /\ returned = {}
    /\ call = NoCall

Classify ==
    /\ pc = "classify"
    /\ pc' = "classified"
    /\ LET action == detect_action(last_results)
       IN  /\ call' = [Enter("detect_action") EXCEPT !.label = <<action>>]
           /\ returned' = {action}
    /\ UNCHANGED <<running, cap_opened, holistic_closed, recording, video_writer,
                   record_button, status_label, action_label, last_frame,
                   last_results, pending, last_results_src, open_writers>>

SpecClassifier == InitClassifier /\ [][Classify]_vars

\* ================================================================ claims

\* the pose of the result stored by the last processed frame
StoredPose == last_results.kind = "results" /\ last_results.pose_landmarks # <<>>

\* the last handler invocation was update_frame (from run or from root.after)
IsUpdate(c) == c.op \in {"run", "update_frame"}

\* C1 (as claimed): capture_image writes exactly one image, last_frame, and shows
\* "Saved: ..." if and only if the stored results have pose landmarks; otherwise
\* it writes nothing and shows "No pose detected!"; last_frame and last_results
\* come from the same camera frame.
C1_CaptureIffPose ==
    /\ (last_frame # <<>> \/ last_results_src # <<>>) =>
          /\ last_frame # <<>> /\ last_results_src # <<>>
          /\ last_frame[1].src = last_results_src[1]
    /\ call.op = "capture_image" =>
          IF StoredPose
          THEN /\ call.saved = <<[file |-> FileName("capture", "jpg"),
                                  image |-> last_frame[1]]>>
               /\ status_label = <<"Saved: ", FileName("capture", "jpg")>>
          ELSE /\ call.saved = <<>>
               /\ status_label = <<"No pose detected!">>

\* C6 (as claimed): capture_image never raises: every press of Capture ends with
\* the "Saved: ..." status or the "No pose detected!" status.
C6_CaptureNeverRaises ==
    call.op = "capture_image" =>
        /\ ~call.raised
        /\ status_label[1] \in {"Saved: ", "No pose detected!"}

\* C2 (as claimed): every frame update_frame writes to the video writer is the
\* landmark-annotated image of the frame read in the same call, never the raw
\* camera frame, and is written only when the read succeeded and recording is on.
C2_WrittenFrameAnnotated ==
    call.written # <<>> =>
        /\ IsUpdate(call) /\ call.ret /\ recording
        /\ call.written[1] = Annotated(call.frame[1])

\* C2 (amended): every frame update_frame writes to the video writer is the image
\* process_frame returned for the frame read in the same call: the annotated
\* image, or the raw camera frame when processing raised. A frame is written
\* exactly when the read succeeded and recording is on.
C2_WrittenFrameFromProcessFrame ==
    /\ call.written # <<>> =>
          /\ IsUpdate(call) /\ call.ret /\ recording
          /\ call.written = last_frame
          /\ call.written[1] =
                IF call.raised THEN Raw(call.frame[1]) ELSE Annotated(call.frame[1])
    /\ (IsUpdate(call) /\ call.ret /\ recording) => call.written # <<>>

\* a frame whose processing raised was written while recording
C2_Witness ==
    /\ call.op = "update_frame" /\ call.ret /\ call.raised /\ recording
    /\ call.written = <<Raw(call.frame[1])>>

\* C3 (as claimed): over all inputs, absent results and results without pose
\* landmarks included, detect_action returns at most three distinct labels.
C3_ThreeLabels == Cardinality(returned) <= 3

\* C3 (amended): detect_action returns one of four distinct labels: one of the
\* three pose labels exactly when the results have pose landmarks, "None"
\* otherwise; the action label displays the label returned.
C3_FourLabels ==
    /\ returned \subseteq AllLabels
    /\ action_label[2] \in AllLabels
    /\ call.label # <<>> =>
          /\ IsUpdate(call) /\ call.ret
          /\ action_label = <<"Action: ", call.label[1]>>
          /\ call.label[1] \in PoseLabels <=> StoredPose
          /\ call.label[1] = "None" <=> ~StoredPose

\* all four labels have been returned, the last one for a frame without pose
C3_Witness ==
    /\ returned = AllLabels
    /\ Cardinality(returned) = 4
    /\ call.label = <<"None">>
    /\ last_results = Results(<<>>)

\* C4: toggle_recording called while not recording creates one writer and sets
\* recording; called while recording it releases that writer, clears
\* video_writer and resets recording. Before cleanup, recording holds iff
\* video_writer is not None, and the button reads "Stop Recording" iff recording.
C4_RecordingIffWriter ==
    pc # "destroyed" =>
        /\ recording <=> video_writer # <<>>
        /\ recording <=> record_button = "Stop Recording"
        /\ ~recording <=> record_button = "Start Recording"
        /\ open_writers = IF recording THEN 1 ELSE 0
        /\ video_writer # <<>> => ~video_writer[1].released
        /\ call.op = "toggle_recording" =>
              IF call.recording_before
              THEN /\ ~recording /\ video_writer = <<>>
                   /\ call.released = 1 /\ call.created = 0
              ELSE /\ recording /\ video_writer # <<>>
                   /\ call.released = 0 /\ call.created = 1

\* recording was stopped by toggle_recording
C4_Witness ==
    /\ call.op = "toggle_recording" /\ call.recording_before
    /\ ~recording /\ call.released = 1

\* C5: for a result with pose landmarks detect_action returns "Raising Right
\* Hand" when right_wrist < right_shoulder - 0.2, otherwise "Raising Left Hand"
\* when left_wrist < left_shoulder - 0.2, otherwise "Standing"; a wrist exactly
\* at shoulder - 0.2 is not raised; it returns "None" exactly when the results
\* are absent or have no pose landmarks.
C5_DetectActionThresholds ==
    pc = "classified" =>
        LET label == call.label[1]
        IN  IF last_results.kind = "results" /\ last_results.pose_landmarks # <<>>
            THEN LET lm == last_results.pose_landmarks[1]
                     right_up == lm.right_wrist + Threshold < lm.right_shoulder
                     left_up == lm.left_wrist + Threshold < lm.left_shoulder
                 IN  /\ right_up => label = "Raising Right Hand"
                     /\ (~right_up /\ left_up) => label = "Raising Left Hand"
                     /\ (~right_up /\ ~left_up) => label = "Standing"
                     /\ lm.right_wrist + Threshold = lm.right_shoulder =>
                            label # "Raising Right Hand"
                     /\ (lm.left_wrist + Threshold = lm.left_shoulder) =>
                            label # "Raising Left Hand"
                     /\ label # "None"
            ELSE label = "None"

\* both wrists are above their thresholds and the right hand wins
C5_Witness ==
    /\ pc = "classified"
    /\ last_results.pose_landmarks # <<>>
    /\ LET lm == last_results.pose_landmarks[1]
       IN  /\ lm.right_wrist + Threshold < lm.right_shoulder
           /\ lm.left_wrist + Threshold < lm.left_shoulder
    /\ call.label = <<"Raising Right Hand">>

\* C7: after cleanup running is False, the camera and the holistic model are
\* released, a writer that was open has been released, and an update_frame call
\* made from then on reads no frame, writes no frame and schedules nothing.
C7_CleanupStops ==
    pc = "destroyed" =>
        /\ ~running /\ ~cap_opened /\ holistic_closed
        /\ open_writers = 0
        /\ video_writer # <<>> => video_writer[1].released
        /\ call.op = "cleanup" =>
              call.released = IF call.recording_before THEN 1 ELSE 0
        /\ call.op \in {"cleanup", "update_frame"}
        /\ call.op = "update_frame" =>
              /\ ~call.guard /\ ~call.read /\ ~call.ret
              /\ call.written = <<>>
              /\ call.scheduled = 0
              /\ pending = 0

\* update_frame was called after a cleanup that found recording on
C7_Witness ==
    /\ pc = "destroyed" /\ call.op = "update_frame"
    /\ recording /\ video_writer # <<>>

\* C8 (as claimed): while recording is on, update_frame leaves the status label
\* unchanged.
C8_StatusUnchangedWhileRecording ==
    [][(IsUpdate(call') /\ recording) => status_label' = status_label]_vars

\* C8 (amended): while recording is on, an update_frame call leaves the status
\* label unchanged unless processing the frame raised, and then it leaves the
\* "Error: ..." status that process_frame set; update_frame sets "Pose detected"
\* or "No pose detected" only when recording is False.
C8_StatusWhileRecording ==
    [][IsUpdate(call') =>
          /\ (recording /\ ~call'.raised) => status_label' = status_label
          /\ (recording /\ call'.raised) =>
                status_label' = <<"Error: ", <<"str(e)">> >>
          /\ (~recording /\ call'.ret) =>
                status_label' = IF call'.label[1] \in PoseLabels
                                THEN <<"Pose detected">>
                                ELSE <<"No pose detected">>
          /\ ~call'.ret => status_label' = status_label]_vars

\* a frame was processed while recording and "Recording: <file>" is still shown
C8_Witness ==
    /\ call.op = "update_frame" /\ call.ret /\ ~call.raised /\ recording
    /\ status_label = <<"Recording: ", FileName("recording", "mp4")>>

\* C9: an update_frame call made while running is True and the camera is open
\* schedules exactly one next call, also when the read fails or processing
\* raises; a call made otherwise schedules nothing; once no call is scheduled
\* the loop never restarts.
C9_LoopKeepsRunning ==
    [][/\ (IsUpdate(call') /\ running /\ cap_opened) =>
              call'.scheduled = 1 /\ pending' = 1
       /\ (IsUpdate(call') /\ ~(running /\ cap_opened)) =>
              call'.scheduled = 0 /\ pending' = 0
       /\ (pc # "constructed" /\ pending = 0) => pending' = 0]_vars

\* a failed read rescheduled the loop
C9_Witness ==
    /\ call.op = "update_frame" /\ call.read /\ ~call.ret
    /\ call.scheduled = 1 /\ pending = 1 /\ running

====
